---------------------------- MODULE Spec2Model ----------------------------
(***************************************************************************)
(* SmartBet: the expected-value ranking of src/src/prediction, the retrying *)
(* fetcher of code/source/models/real_world_data.py, the JSON-backed user   *)
(* tracking of code/source/user_behavior, the /bet handlers of              *)
(* code/source/app.py and src/src/app.py, the odds client of                *)
(* src/src/api/odds_api.py, calculate_odds of code/source/models/utils, the *)
(* model store of src/src/utils/model_utils.py and preprocess_data of       *)
(* src/src/prediction/train_model.py.                                       *)
(*                                                                         *)
(* Numbers.  Probabilities are the rationals k / ProbDen (k in 0..ProbDen), *)
(* prices and max_odds are the rationals q / OddsDen.  An expected value is *)
(* kept as the integer ev * ProbDen * OddsDen and an expected profit as the *)
(* integer profit * ProbDen * OddsDen * OddsDen, so every comparison the    *)
(* code makes (ev > 0, bet_odd <= max_odds, the sort key) is the comparison *)
(* of the integers.  The string "N/A" that the odds client stores for a     *)
(* missing price is the value NA.                                          *)
(***************************************************************************)
EXTENDS Integers, Sequences, FiniteSets, TLC

VARIABLES
    rk,         \* the last run of the EV loop of predict_bet: inputs and result
    pb,         \* the last call of predict_bet: inputs and result
    rw,         \* the call of get_real_world_data: position, counters, events
    ut,         \* user_tracking: user_data, the data file, the calls made
    bt,         \* POST /bet of code/source/app.py: a request and its answer
    oc,         \* the call of get_gambling_odds of odds_api: the network, the result
    sb,         \* POST /bet of src/src/app.py: a request and its answer
    co,         \* the call of calculate_odds of models/utils: inputs and result
    mu,         \* model_utils: the files on disk, the calls made
    tm          \* the call of train_model.preprocess_data: the CSV, the result

vars == <<rk, pb, rw, ut, bt, oc, sb, co, mu, tm>>

(***************************** bounds ***************************************)
MaxBets == 3        \* longest list of candidates handed to the EV loop
MaxOdds == 2        \* longest odds list handed to predict_bet
MaxRetry == 3       \* greatest retry_attempts handed to get_real_world_data
MaxCalls == 3       \* user_tracking calls and restarts in one behaviour
MaxMarkets == 2     \* markets in a response of the odds provider
MaxRows == 2        \* most rows of the CSV handed to train_model.preprocess_data
ProbDen == 4        \* probabilities are k / ProbDen
OddsDen == 2        \* prices are q / OddsDen

NA == -1            \* the string "N/A" in a price field

Probabilities == 0 .. ProbDen
Prices        == {NA, 0, 3, 12}          \* "N/A", 0 (the default), 1.5, 6.0
MaxOddsSet    == {3, 12}                 \* max_odds : 1.5, 6.0
ProfitSet     == {1, 2}                  \* desired_profit
OutcomeNames  == <<"1", "X", "2", "1X", "X2">>

\* dict.get(key, default)
Get(d, key, default) == IF key \in DOMAIN d THEN d[key] ELSE default

(******************** src/src/prediction/prediction.py **********************)

\* variant: the whole stake is subtracted, ev = probability * bet_odd - 1
ExpectedValue_noStake(probability, bet_odd) ==
    probability * bet_odd - ProbDen * OddsDen

\* line 136: ev = (probability * bet_odd) - (1 - probability), times
\* ProbDen * OddsDen
ExpectedValue(probability, bet_odd) ==
    probability * bet_odd - (ProbDen - probability) * OddsDen

\* expected_profit = ev * bet_odd * desired_profit
ExpectedProfit(ev, bet_odd, desired_profit) == ev * bet_odd * desired_profit

\* the dictionary appended to bet_predictions for candidate row
BetRecord(row, probability, desired_profit) ==
    LET bet_odd == Get(row, "bookmaker_price", 0)
        ev      == ExpectedValue(probability, bet_odd)
    IN  [ event_id              |-> Get(row, "event_id", "Unknown"),
          market_name           |-> Get(row, "market_name", "Unknown"),
          outcome_name          |-> Get(row, "outcome_name", "Unknown"),
          bookmaker             |-> Get(row, "bookmaker_name", "Unknown"),
          bookmaker_link        |-> Get(row, "bookmaker_link", "Unknown"),
          bet_coef              |-> bet_odd,
          ev                    |-> ev,
          predicted_probability |-> probability,
          expected_profit       |-> ExpectedProfit(ev, bet_odd, desired_profit) ]

\* variant: the test of the expected value is left out
Qualifies_anyEv(ev, bet_odd, max_odds) == bet_odd <= max_odds

\* line 139: if ev > 0 and bet_odd <= max_odds
Qualifies(ev, bet_odd, max_odds) == ev > 0 /\ bet_odd <= max_odds

\* variant: the list is sorted by ev
SortKey_ev(bet) == bet.ev

\* line 155: the key of bet_predictions.sort
SortKey(bet) == bet.expected_profit

\* list.sort(key, reverse=True): stable, descending by key
RECURSIVE InsertDesc(_, _)
InsertDesc(sorted, bet) ==
    IF sorted = <<>> THEN <<bet>>
    ELSE IF SortKey(Head(sorted)) >= SortKey(bet)
         THEN <<Head(sorted)>> \o InsertDesc(Tail(sorted), bet)
         ELSE <<bet>> \o sorted

RECURSIVE SortDesc(_)
SortDesc(bets) ==
    IF bets = <<>> THEN <<>>
    ELSE InsertDesc(SortDesc(SubSeq(bets, 1, Len(bets) - 1)), bets[Len(bets)])

\* the for loop of lines 134-150 over the first n candidates
RECURSIVE BetLoop(_, _, _, _, _)
BetLoop(predicted_probabilities, processed_data, max_odds, desired_profit, n) ==
    IF n = 0 THEN [exc |-> "none", bets |-> <<>>, evs |-> <<>>]
    ELSE
      LET before  == BetLoop(predicted_probabilities, processed_data,
                             max_odds, desired_profit, n - 1)
          row     == processed_data[n]
          p       == predicted_probabilities[n]
          bet_odd == Get(row, "bookmaker_price", 0)
          ev      == ExpectedValue(p, bet_odd)
      IN  IF before.exc # "none" THEN before
          ELSE IF bet_odd = NA
               THEN [exc |-> "TypeError", bets |-> <<>>, evs |-> before.evs]
          ELSE [ exc  |-> "none",
                 bets |-> IF Qualifies(ev, bet_odd, max_odds)
                          THEN Append(before.bets, BetRecord(row, p, desired_profit))
                          ELSE before.bets,
                 evs  |-> Append(before.evs, ev) ]

\* lines 132-157: the EV loop, the sort and the return
RankBets(predicted_probabilities, processed_data, max_odds, desired_profit) ==
    LET loop == BetLoop(predicted_probabilities, processed_data, max_odds,
                        desired_profit, Len(predicted_probabilities))
    IN  IF loop.exc # "none"
        THEN [outcome |-> loop.exc, bets |-> <<>>, evs |-> loop.evs]
        ELSE [outcome |-> "returned", bets |-> SortDesc(loop.bets), evs |-> loop.evs]


\* an entry of the list get_gambling_odds returns (odds_api.py lines 40-71)
ClientEntry(outcome_name, best_price) ==
    [ event_id          |-> "id1000001750850429",
      event_date        |-> "2025-01-01",
      event_status      |-> "pre-game",
      market_name       |-> "1X2",
      market_short_name |-> "1X2",
      odds_type         |-> "3way",
      outcome_name      |-> outcome_name,
      best_price        |-> best_price ]

\* the bookmaker_info of lines 64-68
BookmakerInfo(bookmaker_price) ==
    [ bookmaker_name  |-> "bet365",
      bookmaker_price |-> bookmaker_price,
      bookmaker_link  |-> "/bet365/event" ]

\* line 69: the key bookmaker_details exists only when the outcome lists a
\* bookmaker; shape.bookmakers is the list of the prices of its bookmakers
EntryOf(shape, outcome_name) ==
    IF shape.bookmakers = <<>>
    THEN ClientEntry(outcome_name, shape.best_price)
    ELSE ClientEntry(outcome_name, shape.best_price)
           @@ ("bookmaker_details" :>
                 BookmakerInfo(shape.bookmakers[Len(shape.bookmakers)]))

EntryShapes ==
    { [best_price |-> NA, bookmakers |-> <<>>],
      [best_price |-> 3,  bookmakers |-> <<3>>],
      [best_price |-> 8,  bookmakers |-> <<8, 3>>],
      [best_price |-> 8,  bookmakers |-> <<8>>],
      [best_price |-> 8,  bookmakers |-> <<8, NA>>],
      [best_price |-> NA, bookmakers |-> <<8>>] }

OddsLists ==
    UNION { { [i \in 1 .. n |-> EntryOf(shapes[i], OutcomeNames[i])] :
                shapes \in [1 .. n -> EntryShapes] } : n \in 0 .. MaxOdds }

\* extract_outcome_data
extract_outcome_data(odds) ==
    [ i \in 1 .. Len(odds) |->
        LET event     == odds[i]
            bookmaker == Get(event, "bookmaker_details", <<>>)
        IN  [ event_id        |-> Get(event, "event_id", "Unknown"),
              event_date      |-> Get(event, "event_date", "Unknown"),
              market_name     |-> Get(event, "market_name", "Unknown"),
              outcome_name    |-> Get(event, "outcome_name", "Unknown"),
              best_price      |-> Get(event, "best_price", 0),
              bookmaker_name  |-> Get(bookmaker, "bookmaker_name", "Unknown"),
              bookmaker_price |-> Get(bookmaker, "bookmaker_price", 0),
              bookmaker_link  |-> Get(bookmaker, "bookmaker_link", "N/A") ] ]

\* the columns of pd.DataFrame(records): the union of the records' keys
Columns(records) == UNION {DOMAIN records[i] : i \in DOMAIN records}

\* pd.DataFrame(processed_data).to_dict(orient='records'), pd.DataFrame(odds)
\* and df.fillna(0): every record gets every column, a missing cell becomes 0
FilledFrame(records) ==
    [ i \in DOMAIN records |->
        [c \in Columns(records) |-> Get(records[i], c, 0)] ]

required_columns ==
    {"best_price", "event_id", "market_name", "bookmaker_details"}

\* preprocess_data: lines 47-51 raise on a missing column, get_dummies needs
\* market_name and outcome_name, StandardScaler needs a numeric best_price
preprocess_data(odds) ==
    LET df              == FilledFrame(odds)
        missing_columns == required_columns \ Columns(df)
    IN  IF missing_columns # {}
        THEN [exc |-> "ValueError", missing |-> missing_columns]
        ELSE IF ~ ({"market_name", "outcome_name"} \subseteq Columns(df))
        THEN [exc |-> "KeyError", missing |-> {}]
        ELSE IF \E i \in DOMAIN df : df[i].best_price = NA
        THEN [exc |-> "ValueError", missing |-> {}]
        ELSE [exc |-> "none", missing |-> {}]

\* predict_bet; model_exists is os.path.exists(model_path) and
\* predicted_probabilities what the loaded model answers for the features
predict_bet(odds, model_exists, max_odds, desired_profit, predicted_probabilities) ==
    IF ~ model_exists
    THEN [outcome |-> "ValueError", missing |-> {}, bets |-> <<>>]
    ELSE
      LET processed_data == extract_outcome_data(odds)
          pre            == preprocess_data(processed_data)
          ranked         == RankBets(predicted_probabilities, processed_data,
                                     max_odds, desired_profit)
      IN  IF pre.exc # "none"
          THEN [outcome |-> pre.exc, missing |-> pre.missing, bets |-> <<>>]
          ELSE [outcome |-> ranked.outcome, missing |-> {}, bets |-> ranked.bets]

(***************************** actions *************************************)

\* rows as extract_outcome_data builds them, for the EV loop
CandidateRow(i, bookmaker_price) ==
    [ event_id        |-> "id1000001750850429",
      event_date      |-> "2025-01-01",
      market_name     |-> "1X2",
      outcome_name    |-> OutcomeNames[i],
      best_price      |-> 8,
      bookmaker_name  |-> "bet365",
      bookmaker_price |-> bookmaker_price,
      bookmaker_link  |-> "/bet365/event" ]

\* lines 132-157 of predict_bet run on the candidates drawn at the start
RunRankBets ==
    /\ ~ rk.called
    /\ LET r == RankBets(rk.probs, rk.processed_data, rk.max_odds, rk.desired_profit)
       IN  rk' = [ called         |-> TRUE,
                   probs          |-> rk.probs,
                   processed_data |-> rk.processed_data,
                   max_odds       |-> rk.max_odds,
                   desired_profit |-> rk.desired_profit,
                   outcome        |-> r.outcome,
                   evs            |-> r.evs,
                   bets           |-> r.bets ]
    /\ UNCHANGED <<pb, rw, ut, bt, oc, sb, co, mu, tm>>

\* the call of predict_bet on the arguments drawn at the start
CallPredictBet ==
    /\ ~ pb.called
    /\ LET r == predict_bet(pb.odds, pb.model_exists, pb.max_odds,
                            pb.desired_profit, pb.probs)
       IN  pb' = [ called         |-> TRUE,
                   odds           |-> pb.odds,
                   model_exists   |-> pb.model_exists,
                   max_odds       |-> pb.max_odds,
                   desired_profit |-> pb.desired_profit,
                   probs          |-> pb.probs,
                   outcome        |-> r.outcome,
                   missing        |-> r.missing,
                   bets           |-> r.bets ]
    /\ UNCHANGED <<rk, rw, ut, bt, oc, sb, co, mu, tm>>

Idle == [called |-> TRUE, outcome |-> "idle"]

InitRank ==
    /\ \E n \in 1 .. MaxBets :
       \E prices \in [1 .. n -> Prices], probs \in [1 .. n -> Probabilities] :
       \E max_odds \in MaxOddsSet, desired_profit \in ProfitSet :
         rk = [ called         |-> FALSE,
                probs          |-> probs,
                processed_data |-> [i \in 1 .. n |-> CandidateRow(i, prices[i])],
                max_odds       |-> max_odds,
                desired_profit |-> desired_profit ]
    /\ pb = Idle
    /\ rw = Idle
    /\ ut = Idle
    /\ bt = Idle
    /\ oc = Idle
    /\ sb = Idle
    /\ co = Idle
    /\ mu = Idle
    /\ tm = Idle

NextRank == RunRankBets
SpecRank == InitRank /\ [][NextRank]_vars

InitPredict ==
    /\ rk = Idle
    /\ rw = Idle
    /\ ut = Idle
    /\ bt = Idle
    /\ oc = Idle
    /\ sb = Idle
    /\ co = Idle
    /\ mu = Idle
    /\ tm = Idle
    /\ \E odds \in OddsLists, model_exists \in BOOLEAN :
       \E probs \in [1 .. Len(odds) -> Probabilities] :
       \E max_odds \in MaxOddsSet, desired_profit \in ProfitSet :
         pb = [ called         |-> FALSE,
                odds           |-> odds,
                model_exists   |-> model_exists,
                max_odds       |-> max_odds,
                desired_profit |-> desired_profit,
                probs          |-> probs ]

NextPredict == CallPredictBet
SpecPredict == InitPredict /\ [][NextPredict]_vars

(************** code/source/models/real_world_data.py ***********************)

\* what one pass through the try block of lines 29-66 can end in:
\* requests.get raising (ConnectionError, Timeout), a 200 response whose body
\* does not decode (requests' JSONDecodeError is a RequestException from
\* requests 2.27 on and a plain ValueError before), a 200 response with data
\* or with none, a game entry that is no container (TypeError at line 45),
\* and any other status
RequestExceptions == {"ConnectionError", "Timeout", "JSONDecodeError"}
OtherExceptions   == {"ValueError", "TypeError"}
Responses         == {"ok_data", "ok_empty", "status_error"}
AttemptOutcomes   == RequestExceptions \cup OtherExceptions \cup Responses

\* variant: range(retry_attempts + 1)
InRange_oneMore(attempt, retry_attempts) == attempt <= retry_attempts

\* line 28: for attempt in range(retry_attempts)
InRange(attempt, retry_attempts) == attempt < retry_attempts

\* variant: if attempt < retry_attempts
RetryLeft_always(attempt, retry_attempts) == attempt < retry_attempts

\* line 70: if attempt < retry_attempts - 1
RetryLeft(attempt, retry_attempts) == attempt < retry_attempts - 1

\* lines 29-66 and the except clause up to the sleep: one request
SendRequest ==
    /\ rw.pc = "loop"
    /\ InRange(rw.attempt, rw.retry_attempts)
    /\ \E outcome \in AttemptOutcomes :
         LET sent == [rw EXCEPT !.requests = @ + 1,
                                !.events = Append(@, outcome)]
         IN  rw' =
               IF outcome = "ok_data"
               THEN [sent EXCEPT !.pc = "done", !.result = "match_stats"]
               ELSE IF outcome \in {"ok_empty", "status_error"}
               THEN [sent EXCEPT !.pc = "done", !.result = "None"]
               ELSE IF outcome \in OtherExceptions
               THEN [sent EXCEPT !.pc = "raised", !.result = outcome]
               ELSE IF RetryLeft(rw.attempt, rw.retry_attempts)
               THEN [sent EXCEPT !.pc = "sleep"]
               ELSE [sent EXCEPT !.pc = "done", !.result = "None"]
    /\ UNCHANGED <<rk, pb, ut, bt, oc, sb, co, mu, tm>>

\* line 72: time.sleep(delay), then the next iteration
Sleep ==
    /\ rw.pc = "sleep"
    /\ rw' = [rw EXCEPT !.pc = "loop",
                        !.attempt = @ + 1,
                        !.sleeps = @ + 1,
                        !.events = Append(@, "sleep")]
    /\ UNCHANGED <<rk, pb, ut, bt, oc, sb, co, mu, tm>>

\* the range is exhausted: the function ends without a return statement
FallThrough ==
    /\ rw.pc = "loop"
    /\ ~ InRange(rw.attempt, rw.retry_attempts)
    /\ rw' = [rw EXCEPT !.pc = "done", !.result = "None"]
    /\ UNCHANGED <<rk, pb, ut, bt, oc, sb, co, mu, tm>>

InitFetch ==
    /\ rk = Idle
    /\ pb = Idle
    /\ ut = Idle
    /\ bt = Idle
    /\ oc = Idle
    /\ sb = Idle
    /\ co = Idle
    /\ mu = Idle
    /\ tm = Idle
    /\ \E retry_attempts \in 0 .. MaxRetry :
         rw = [ pc             |-> "loop",
                retry_attempts |-> retry_attempts,
                attempt        |-> 0,
                requests       |-> 0,
                sleeps         |-> 0,
                events         |-> <<>>,
                result         |-> "pending" ]

NextFetch == SendRequest \/ Sleep \/ FallThrough
SpecFetch == InitFetch /\ [][NextFetch]_vars

(************* code/source/user_behavior/user_tracking.py *******************)

\* A Python dict is the sequence of its items [k, v] in insertion order, with
\* distinct keys.  A user id is [t |-> "str" or "int", v |-> its str()]: the
\* ids "1" and 1 are two keys of a dict and one key of a JSON object.  The
\* odds of a bet are [t |-> "list" or "tuple", v |-> the numbers].
Keys(d)      == {d[i].k : i \in DOMAIN d}
HasKey(d, k) == \E i \in DOMAIN d : d[i].k = k
Lookup(d, k) == d[CHOOSE i \in DOMAIN d : d[i].k = k].v
Put(d, k, v) ==
    IF HasKey(d, k)
    THEN [i \in DOMAIN d |-> IF d[i].k = k THEN [k |-> k, v |-> v] ELSE d[i]]
    ELSE Append(d, [k |-> k, v |-> v])

BetsOf(d, user_id) == IF HasKey(d, user_id) THEN Lookup(d, user_id).bets ELSE <<>>

\* dict == dict: the same keys with equal values, whatever the order
DictEq(a, b) ==
    /\ Keys(a) = Keys(b)
    /\ \A k \in Keys(a) : Lookup(a, k) = Lookup(b, k)

\* json.dump: a key that is an int is written as its string, a tuple as a list
JsonKey(k)   == [t |-> "str", v |-> k.v]
JsonOdds(o)  == [t |-> "list", v |-> o.v]
JsonBet(bet) == [bet EXCEPT !.odds = JsonOdds(@)]
JsonUser(u)  == [u EXCEPT !.bets = [i \in DOMAIN @ |-> JsonBet(@[i])]]

JsonDump(d) ==
    [i \in DOMAIN d |-> [k |-> JsonKey(d[i].k), v |-> JsonUser(d[i].v)]]

\* json.load of a JSON object: of two members with one name the later wins
RECURSIVE JsonLoad(_)
JsonLoad(doc) ==
    IF doc = <<>> THEN <<>>
    ELSE LET n == Len(doc)
         IN  Put(JsonLoad(SubSeq(doc, 1, n - 1)), doc[n].k, doc[n].v)

\* load_user_data: a missing or corrupted file reads as {}
load_user_data(file) ==
    IF file.state = "json" THEN JsonLoad(file.doc) ELSE <<>>

WriteOutcomes == {"ok", "open_failed", "dump_failed"}

\* variant: nothing is written
save_user_data_stale(user_data, file, outcome) == file

\* save_user_data: open(USER_DATA_FILE, "w") and json.dump; an exception is
\* logged and swallowed.  A failed open leaves the file, a failed dump leaves
\* it truncated or partly written
save_user_data(user_data, file, outcome) ==
    IF outcome = "ok" THEN [state |-> "json", doc |-> JsonDump(user_data)]
    ELSE IF outcome = "open_failed" THEN file
    ELSE [state |-> "corrupt", doc |-> <<>>]

DefaultPreferences == [risk_tolerance |-> "medium"]

BetOf(model, bet_amount, prediction, odds) ==
    [model |-> model, bet_amount |-> bet_amount,
     prediction |-> prediction, odds |-> odds]

\* variant: the bet is put in front of the list
save_user_bet_prepend(user_data, user_id, model, bet_amount, prediction, odds) ==
    LET known == IF HasKey(user_data, user_id) THEN user_data
                 ELSE Put(user_data, user_id,
                          [bets |-> <<>>, preferences |-> DefaultPreferences])
        user  == Lookup(known, user_id)
    IN  Put(known, user_id,
            [user EXCEPT !.bets =
               <<BetOf(model, bet_amount, prediction, odds)>> \o @])

\* save_user_bet, lines 33-45: the dictionary after the call
save_user_bet(user_data, user_id, model, bet_amount, prediction, odds) ==
    LET known == IF HasKey(user_data, user_id) THEN user_data
                 ELSE Put(user_data, user_id,
                          [bets |-> <<>>, preferences |-> DefaultPreferences])
        user  == Lookup(known, user_id)
    IN  Put(known, user_id,
            [user EXCEPT !.bets =
               Append(@, BetOf(model, bet_amount, prediction, odds))])

\* variant: an unknown user is given a record first, as lines 33-37 do
get_user_preferences_setdefault(user_data, user_id) ==
    LET known == IF HasKey(user_data, user_id) THEN user_data
                 ELSE Put(user_data, user_id,
                          [bets |-> <<>>, preferences |-> DefaultPreferences])
    IN  [ value     |-> Lookup(known, user_id).preferences,
          user_data |-> known ]

\* get_user_preferences, line 52: the value returned and the dictionary
\* after the call
get_user_preferences(user_data, user_id) ==
    [ value     |-> IF HasKey(user_data, user_id)
                    THEN Lookup(user_data, user_id).preferences
                    ELSE DefaultPreferences,
      user_data |-> user_data ]

\* update_user_preferences, lines 56-59: an unknown user gets
\* {'bets': [], 'preferences': {}} and then the risk_tolerance
update_user_preferences(user_data, user_id, risk_tolerance) ==
    IF HasKey(user_data, user_id)
    THEN Put(user_data, user_id,
             [Lookup(user_data, user_id)
                EXCEPT !.preferences.risk_tolerance = risk_tolerance])
    ELSE Put(user_data, user_id,
             [bets |-> <<>>, preferences |-> [risk_tolerance |-> risk_tolerance]])

UserIds        == { [t |-> "str", v |-> "1"], [t |-> "int", v |-> "1"],
                    [t |-> "str", v |-> "7f3a"] }
RiskTolerances == {"low", "high"}
BetArgs        == { [prediction |-> "Win",  odds |-> [t |-> "list",  v |-> <<3, 4>>]],
                    [prediction |-> "Lose", odds |-> [t |-> "tuple", v |-> <<3, 4>>]] }

\* a call of save_user_bet: lines 33-48
SaveUserBet ==
    /\ ut.n < MaxCalls
    /\ \E user_id \in UserIds, args \in BetArgs, outcome \in WriteOutcomes :
         LET after == save_user_bet(ut.user_data, user_id, <<"model_1">>, 10,
                                    args.prediction, args.odds)
         IN  ut' = [ut EXCEPT
                 !.user_data = after,
                 !.file  = save_user_data(after, ut.file, outcome),
                 !.calls = Append(@, [op |-> "save_user_bet", user_id |-> user_id,
                                      bet |-> BetOf(<<"model_1">>, 10,
                                                    args.prediction, args.odds)]),
                 !.last  = [op |-> "save_user_bet", user_id |-> user_id,
                            write |-> outcome, before |-> ut.user_data],
                 !.n = @ + 1]
    /\ UNCHANGED <<rk, pb, rw, bt, oc, sb, co, mu, tm>>

\* a call of update_user_preferences: lines 56-60
UpdateUserPreferences ==
    /\ ut.n < MaxCalls
    /\ \E user_id \in UserIds, risk \in RiskTolerances, outcome \in WriteOutcomes :
         LET after == update_user_preferences(ut.user_data, user_id, risk)
         IN  ut' = [ut EXCEPT
                 !.user_data = after,
                 !.file  = save_user_data(after, ut.file, outcome),
                 !.calls = Append(@, [op |-> "update_user_preferences",
                                      user_id |-> user_id, risk |-> risk]),
                 !.last  = [op |-> "update_user_preferences", user_id |-> user_id,
                            write |-> outcome, before |-> ut.user_data],
                 !.n = @ + 1]
    /\ UNCHANGED <<rk, pb, rw, bt, oc, sb, co, mu, tm>>

\* a call of get_user_preferences: line 52, which does not call
\* save_user_data
GetUserPreferences ==
    /\ ut.n < MaxCalls
    /\ \E user_id \in UserIds :
         LET r == get_user_preferences(ut.user_data, user_id)
         IN  ut' = [ut EXCEPT
                 !.user_data = r.user_data,
                 !.calls = Append(@, [op |-> "get_user_preferences",
                                      user_id |-> user_id]),
                 !.last  = [op |-> "get_user_preferences", user_id |-> user_id,
                            write |-> "none", before |-> ut.user_data,
                            file_before |-> ut.file, value |-> r.value],
                 !.n = @ + 1]
    /\ UNCHANGED <<rk, pb, rw, bt, oc, sb, co, mu, tm>>

\* the process ends and the module is imported again: line 29
Restart ==
    /\ ut.n < MaxCalls
    /\ ut' = [ut EXCEPT
            !.user_data  = load_user_data(ut.file),
            !.start_data = load_user_data(ut.file),
            !.calls = <<>>,
            !.last  = [op |-> "import", write |-> "none"],
            !.n = @ + 1]
    /\ UNCHANGED <<rk, pb, rw, bt, oc, sb, co, mu, tm>>

InitUsers ==
    /\ rk = Idle
    /\ pb = Idle
    /\ rw = Idle
    /\ bt = Idle
    /\ oc = Idle
    /\ sb = Idle
    /\ co = Idle
    /\ mu = Idle
    /\ tm = Idle
    /\ \E file \in { [state |-> "missing", doc |-> <<>>],
                     [state |-> "corrupt", doc |-> <<>>] } :
         ut = [ user_data  |-> load_user_data(file),
                start_data |-> load_user_data(file),
                file       |-> file,
                calls      |-> <<>>,
                last       |-> [op |-> "import", write |-> "none"],
                n          |-> 0 ]

NextUsers == SaveUserBet \/ UpdateUserPreferences \/ GetUserPreferences \/ Restart
SpecUsers == InitUsers /\ [][NextUsers]_vars

(************************ code/source/app.py ********************************)

\* the names each module imported by the handler defines; importing
\* utils.odds_calculator fails at its line 2, which imports the module itself
ModuleExports ==
    ("models.data_preprocessing" :> {"preprocess_data"})
    @@ ("models.betting_model" :> {"train_model", "predict_bet_outcome"})
    @@ ("user_behavior.user_tracking" :>
          {"load_user_data", "save_user_data", "user_data", "save_user_bet",
           "get_user_preferences", "update_user_preferences"})
    @@ ("utils.odds_calculator" :> {})

\* lines 54-57: from <module> import <names>
HandlerImports ==
    << [module |-> "models.data_preprocessing", names |-> {"get_real_world_data"}],
       [module |-> "models.betting_model", names |-> {"predict_bet_outcome"}],
       [module |-> "user_behavior.user_tracking",
        names |-> {"get_user_preferences", "save_user_bet"}],
       [module |-> "utils.odds_calculator", names |-> {"calculate_odds"}] >>

ImportsResolve ==
    \A i \in DOMAIN HandlerImports :
      HandlerImports[i].names \subseteq ModuleExports[HandlerImports[i].module]

\* save_user_bet takes five positional parameters (user_tracking.py line 31);
\* line 100 of the handler passes four
SaveUserBetParameters == 5
SaveUserBetArguments  == 4

\* a form field read with type=float is <<>> (None) or <<value>>; float()
\* accepts "nan", and the value NaN is truthy and compares false with
\* every number
NaN == -999999

Truthy(field) == field # <<>> /\ field[1] # 0

\* a <= b, a < b and a > b on floats
Le(a, b) == a # NaN /\ b # NaN /\ a <= b
Lt(a, b) == a # NaN /\ b # NaN /\ a < b
Gt(a, b) == a # NaN /\ b # NaN /\ a > b

\* lines 69-83: the message of the error page, or "" when the form is valid
ValidationError(form) ==
    IF \/ form.website = "" \/ form.models = <<>>
       \/ ~ Truthy(form.bet_amount) \/ ~ Truthy(form.max_odds)
       \/ ~ Truthy(form.desired_profit)
    THEN "All fields are required."
    ELSE IF Le(form.bet_amount[1], 0)
    THEN "Bet Amount must be positive and in euros."
    ELSE IF Le(form.max_odds[1], 0)
    THEN "Max Odds must be a positive value."
    ELSE IF ~ (Le(1, form.desired_profit[1]) /\ Le(form.desired_profit[1], 1000))
    THEN "Desired Profit should be between 1% and 1000%."
    ELSE ""

\* what one request did: the page rendered ("500" when an exception left
\* the handler), whether line 86 called get_gambling_odds, the bets saved,
\* the dictionary and the file afterwards
Answer(page, message, prediction, exc, fetch, saved, user_data, file) ==
    [ page |-> page, message |-> message, prediction |-> prediction,
      exc |-> exc, fetch |-> fetch, saved |-> saved, user_data |-> user_data,
      file |-> file ]

\* utils/odds_calculator.calculate_odds(team_a_stats, team_b_stats) as line
\* 103 calls it, with the fetched odds and the list of model names: line 14
\* subscripts both with 'goals'.  The exception raised
utils_calculate_odds(team_a_stats, team_b_stats) ==
    IF team_a_stats = "list" THEN "TypeError"
    ELSE IF team_a_stats = "dict" THEN "KeyError"
    ELSE "TypeError"

\* variant: a handler whose prediction follows the risk tolerance on record
bet_byRiskTolerance(form, fetched, choice, user_id, write, user_data, file) ==
    LET bold == \E i \in DOMAIN user_data :
                  user_data[i].v.preferences.risk_tolerance = "high"
    IN  Answer("result.html", "", IF bold THEN "Win" ELSE "Lose", "none",
               TRUE, <<>>, user_data, file)

\* bet(): fetched is what get_gambling_odds returns (<<>> is None), choice
\* what random.choice draws, user_id the fresh uuid, write the outcome of the
\* file write.  An exception leaves the handler (Flask answers 500).
bet(form, fetched, choice, user_id, write, user_data, file) ==
    IF ~ ImportsResolve
    THEN Answer("500", "", "", "ImportError", FALSE, <<>>, user_data, file)
    ELSE IF ValidationError(form) # ""
    THEN Answer("error.html", ValidationError(form), "", "none", FALSE, <<>>,
                user_data, file)
    ELSE IF fetched = <<>>
    THEN Answer("error.html", "Failed to fetch odds for the selected website.",
                "", "none", TRUE, <<>>, user_data, file)
    ELSE
      LET predicted_outcome == IF choice THEN "Win" ELSE "Lose"
      IN  IF SaveUserBetArguments # SaveUserBetParameters
          THEN Answer("500", "", predicted_outcome, "TypeError", TRUE, <<>>,
                      user_data, file)
          ELSE
            LET after == save_user_bet(user_data, user_id, form.models,
                                       form.bet_amount[1], predicted_outcome,
                                       [t |-> "list", v |-> <<>>])
            IN  Answer("500", "", predicted_outcome,
                       utils_calculate_odds(fetched[1], "list"), TRUE,
                       <<BetsOf(after, user_id)[Len(BetsOf(after, user_id))]>>,
                       after, save_user_data(after, file, write))

Websites     == {"", "Site A"}
ModelChoices == {<<>>, <<"model_1">>}
Amounts      == {<<>>, <<0>>, <<-5>>, <<10>>, <<NaN>>}
OddsLimits   == {<<>>, <<0>>, <<-1>>, <<3>>, <<NaN>>}
Profits      == {<<>>, <<0>>, <<1>>, <<1000>>, <<1001>>, <<NaN>>}
\* None, a list, a dict without the key 'goals', a dict with it
Fetched      == {<<>>, <<"list">>, <<"dict">>, <<"stats">>}
StoredRisks  == {"low", "medium", "high"}
FreshUserId  == [t |-> "str", v |-> "9b2e"]

\* the users on record: "1" with one bet and "7f3a" with none
StoredUsers(present, risk) ==
    LET one == [k |-> [t |-> "str", v |-> "1"],
                v |-> [bets |-> <<BetOf(<<"model_1">>, 10, "Win",
                                        [t |-> "list", v |-> <<3, 4>>])>>,
                       preferences |-> [risk_tolerance |-> risk[1]]]]
        two == [k |-> [t |-> "str", v |-> "7f3a"],
                v |-> [bets |-> <<>>,
                       preferences |-> [risk_tolerance |-> risk[2]]]]
    IN  (IF 1 \in present THEN <<one>> ELSE <<>>)
          \o (IF 2 \in present THEN <<two>> ELSE <<>>)

\* one request handled twice: on user_data and on a dictionary that differs
\* from it in the stored risk tolerances only
HandleBet ==
    /\ ~ bt.called
    /\ bt' = [bt EXCEPT
            !.called = TRUE,
            !.answer = bet(bt.form, bt.fetched, bt.choice, FreshUserId, bt.write,
                           bt.user_data, bt.file),
            !.other_answer = bet(bt.form, bt.fetched, bt.choice, FreshUserId,
                                 bt.write, bt.other_data, bt.file)]
    /\ UNCHANGED <<rk, pb, rw, ut, oc, sb, co, mu, tm>>

InitBet ==
    /\ rk = Idle
    /\ pb = Idle
    /\ rw = Idle
    /\ ut = Idle
    /\ oc = Idle
    /\ sb = Idle
    /\ co = Idle
    /\ mu = Idle
    /\ tm = Idle
    /\ \E website \in Websites, models \in ModelChoices, bet_amount \in Amounts :
       \E max_odds \in OddsLimits, desired_profit \in Profits :
       \E fetched \in Fetched, choice \in BOOLEAN, write \in {"ok", "dump_failed"} :
       \E present \in SUBSET {1, 2} :
       \E risk \in [1 .. 2 -> StoredRisks], other_risk \in [1 .. 2 -> StoredRisks] :
         /\ \A i \in {1, 2} \ present : risk[i] = "medium" /\ other_risk[i] = "medium"
         /\ bt = [ called       |-> FALSE,
                   form         |-> [ website |-> website, models |-> models,
                                      bet_amount |-> bet_amount,
                                      max_odds |-> max_odds,
                                      desired_profit |-> desired_profit ],
                   fetched      |-> fetched,
                   choice       |-> choice,
                   write        |-> write,
                   user_data    |-> StoredUsers(present, risk),
                   other_data   |-> StoredUsers(present, other_risk),
                   file         |-> [state |-> "missing", doc |-> <<>>],
                   answer       |-> <<>>,
                   other_answer |-> <<>> ]

NextBet == HandleBet
SpecBet == InitBet /\ [][NextBet]_vars

(************************ src/src/api/odds_api.py ***************************)

\* a market of the decoded response: a dictionary with its outcomes, each an
\* element of EntryShapes, or a value that is no dictionary
MarketShapes ==
    { [dict |-> FALSE, outcomes |-> <<>>], [dict |-> TRUE, outcomes |-> <<>>] }
      \cup { [dict |-> TRUE, outcomes |-> <<a>>] : a \in EntryShapes }
      \cup { [dict |-> TRUE,
              outcomes |-> <<[best_price |-> 3, bookmakers |-> <<3>>], b>>] :
             b \in EntryShapes }

\* lines 47-71: the entries of one market
MarketEntries(market) ==
    [j \in 1 .. Len(market.outcomes) |->
       EntryOf(market.outcomes[j], OutcomeNames[j])]

RECURSIVE AllEntries(_)
AllEntries(markets) ==
    IF markets = <<>> THEN <<>>
    ELSE MarketEntries(Head(markets)) \o AllEntries(Tail(markets))

\* get_gambling_odds.  net.send is what conn.request does (line 26), net.read
\* what getresponse and read do (lines 29-30), net.body what the bytes are:
\* no UTF-8, no JSON, a JSON value that is no object, or an object with
\* net.markets
get_gambling_odds(net) ==
    IF net.send # "ok"
    THEN [outcome |-> "raised", exc |-> net.send, closed |-> FALSE, odds |-> <<>>]
    ELSE IF net.read # "ok" \/ net.body \in {"not_utf8", "not_json"}
    THEN [outcome |-> "None", exc |-> "none", closed |-> TRUE, odds |-> <<>>]
    ELSE IF net.body # "object"
    THEN [outcome |-> "None", exc |-> "none", closed |-> TRUE, odds |-> <<>>]
    ELSE IF \E m \in DOMAIN net.markets : ~ net.markets[m].dict
    THEN [outcome |-> "None", exc |-> "none", closed |-> TRUE, odds |-> <<>>]
    ELSE [outcome |-> "list", exc |-> "none", closed |-> TRUE,
          odds |-> AllEntries(net.markets)]

SendOutcomes == {"ok", "ConnectionRefusedError", "gaierror"}
ReadOutcomes == {"ok", "RemoteDisconnected"}
Bodies       == {"not_utf8", "not_json", "array", "object"}

\* the call of get_gambling_odds on the network drawn at the start
CallGetGamblingOdds ==
    /\ ~ oc.called
    /\ oc' = [oc EXCEPT !.called = TRUE, !.result = get_gambling_odds(oc.net)]
    /\ UNCHANGED <<rk, pb, rw, ut, bt, sb, co, mu, tm>>

InitOdds ==
    /\ rk = Idle
    /\ pb = Idle
    /\ rw = Idle
    /\ ut = Idle
    /\ bt = Idle
    /\ sb = Idle
    /\ co = Idle
    /\ mu = Idle
    /\ tm = Idle
    /\ \E send \in SendOutcomes, read \in ReadOutcomes, body \in Bodies :
       \E n \in 0 .. MaxMarkets :
       \E markets \in [1 .. n -> MarketShapes] :
         /\ body # "object" => n = 0
         /\ oc = [ called |-> FALSE,
                   net    |-> [send |-> send, read |-> read, body |-> body,
                               markets |-> markets],
                   result |-> <<>> ]

NextOdds == CallGetGamblingOdds
SpecOdds == InitOdds /\ [][NextOdds]_vars

(***************************** src/src/app.py ******************************)

\* get_gambling_odds is defined without parameters (odds_api.py line 9);
\* line 46 of the handler passes one argument
GetGamblingOddsParameters == 0
GetGamblingOddsArguments  == 1

\* os.path.exists on a file of src/prediction/models
Exists(files, name) == name \in files

\* lines 33-43: the message of the error page, or "" when the form is valid
src_ValidationError(form) ==
    IF form.website = ""
    THEN "Website is required."
    ELSE IF ~ Truthy(form.max_odds) \/ Le(form.max_odds[1], 0)
    THEN "Max Odds should be a positive number."
    ELSE IF ~ Truthy(form.desired_profit) \/ Le(form.desired_profit[1], 0)
    THEN "Desired Profit should be a positive number."
    ELSE ""

\* what one request did: the page rendered ("500" when an exception left
\* the handler) and the steps it went through
src_Answer(page, message, exc, steps) ==
    [ page |-> page, message |-> message, exc |-> exc, steps |-> steps ]

\* bet() of src/src/app.py: net is the network get_gambling_odds talks to,
\* files the names in src/prediction/models, predicted_probability what the
\* model predicts for every row.  The handler looks for the file named
\* model (line 57), predict_bet for the file named model + ".pkl" (line 111)
src_bet(form, net, files, predicted_probability) ==
    IF src_ValidationError(form) # ""
    THEN src_Answer("error.html", src_ValidationError(form), "none", <<>>)
    ELSE IF GetGamblingOddsArguments # GetGamblingOddsParameters
    THEN src_Answer("500", "", "TypeError", <<"fetch">>)
    ELSE
      LET fetched == get_gambling_odds(net)
      IN  IF fetched.outcome = "raised"
          THEN src_Answer("500", "", fetched.exc, <<"fetch">>)
          ELSE IF fetched.outcome = "None"
          THEN src_Answer("error.html", "Failed to fetch odds", "none",
                          <<"fetch">>)
          ELSE IF ~ Exists(files, form.model)
          THEN src_Answer("error.html", "An error occurred",
                          "FileNotFoundError", <<"fetch", "model">>)
          ELSE
            LET r == predict_bet(fetched.odds,
                                 Exists(files, form.model \o ".pkl"),
                                 form.max_odds[1], form.desired_profit[1],
                                 [i \in 1 .. Len(fetched.odds) |->
                                    predicted_probability])
            IN  IF r.outcome # "ok"
                THEN src_Answer("error.html", "An error occurred", r.outcome,
                                <<"fetch", "model", "predict">>)
                ELSE src_Answer("result.html", "", "none",
                                <<"fetch", "model", "predict">>)

\* form.get('model') is None when the field is absent, and f'{model}' is
\* then the name "None"
SrcModels   == {"None", "rf", "rf.pkl"}
ModelFiles  == {{}, {"rf.pkl"}, {"rf", "rf.pkl"}, {"rf.pkl", "rf.pkl.pkl"}}
\* max_odds and desired_profit of the form, max_odds in units of 1 / OddsDen
SrcOddsLimits == {<<>>, <<0>>, <<-1>>, <<3>>, <<NaN>>}
SrcProfits    == {<<>>, <<0>>, <<1>>, <<NaN>>}

\* the request drawn at the start is handled
HandleSrcBet ==
    /\ ~ sb.called
    /\ sb' = [sb EXCEPT
            !.called = TRUE,
            !.answer = src_bet(sb.form, sb.net, sb.files, sb.probability)]
    /\ UNCHANGED <<rk, pb, rw, ut, bt, oc, co, mu, tm>>

InitSrcBet ==
    /\ rk = Idle
    /\ pb = Idle
    /\ rw = Idle
    /\ ut = Idle
    /\ bt = Idle
    /\ oc = Idle
    /\ co = Idle
    /\ mu = Idle
    /\ tm = Idle
    /\ \E website \in Websites, model \in SrcModels :
       \E max_odds \in SrcOddsLimits, desired_profit \in SrcProfits :
       \E send \in SendOutcomes, read \in ReadOutcomes, body \in Bodies :
       \E n \in 0 .. 1 :
       \E markets \in [1 .. n -> MarketShapes] :
       \E files \in ModelFiles, probability \in {1, ProbDen - 1} :
         /\ body # "object" => n = 0
         /\ sb = [ called      |-> FALSE,
                   form        |-> [ website |-> website, model |-> model,
                                     max_odds |-> max_odds,
                                     desired_profit |-> desired_profit ],
                   net         |-> [send |-> send, read |-> read, body |-> body,
                                    markets |-> markets],
                   files       |-> files,
                   probability |-> probability,
                   answer      |-> <<>> ]

NextSrcBet == HandleSrcBet
SpecSrcBet == InitSrcBet /\ [][NextSrcBet]_vars

(************* code/source/models/utils/odds_calculator.py ******************)

\* max(a, b) and min(a, b) of Python: the second argument replaces the
\* first only when it compares greater (smaller), which a NaN never does
PyMax(a, b) == IF Gt(b, a) THEN b ELSE a
PyMin(a, b) == IF Lt(b, a) THEN b ELSE a

\* variant: the floor of 1.5 is left out
Clamp_noFloor(odds, den) == PyMin(odds, 5000 * den)

\* lines 43-44: max(1.5, min(odds, 5.0)), odds in units of 1 / (1000 * den)
Clamp(odds, den) == PyMax(1500 * den, PyMin(odds, 5000 * den))

\* line 46: round(odds, 2), in hundredths.  The nearest hundredth, a tie
\* going up
Round2(odds, den) == (odds + 5 * den) \div (10 * den)

\* lines 15-44 for one team: the odds in units of 1 / (1000 * den), where
\* den is max(pass_accuracy, 1).  home_shift is -50 or 50 (lines 32-33) or
\* 0, random_factor the thousandths drawn by random.uniform(0.05, 0.15).
\* A NaN among the statistics makes the odds NaN until the clamp
TeamOdds(team, other, home_shift, random_factor) ==
    LET pass_accuracy == PyMax(team.pass_accuracy, 1)
        nan  == NaN \in {team.goals, other.goals, team.shots, pass_accuracy}
        den  == IF nan THEN 1 ELSE pass_accuracy
        goal_diff == team.goals - other.goals
        accuracy  == PyMin(20 * team.shots, 200 * den)
        odds == IF nan THEN NaN
                ELSE 1000 * den + 100 * goal_diff * den + accuracy
                       + home_shift * den + random_factor * den
    IN  Round2(Clamp(odds, den), den)

\* calculate_odds of models/utils: the two odds returned, in hundredths
calculate_odds(team_a_stats, team_b_stats, home_advantage, random_factor_a, random_factor_b) ==
    [ team_a_odds |-> TeamOdds(team_a_stats, team_b_stats,
                               IF home_advantage THEN -50 ELSE 0,
                               random_factor_a),
      team_b_odds |-> TeamOdds(team_b_stats, team_a_stats,
                               IF home_advantage THEN 50 ELSE 0,
                               random_factor_b) ]

Goals          == {0, 1, 3, 45, NaN}
Shots          == {0, 12, 900, NaN}
PassAccuracies == {0, 65, NaN}
RandomFactors  == {50, 100, 150}
TeamStats      == [goals : Goals, shots : Shots, pass_accuracy : PassAccuracies]

\* the call of calculate_odds on the statistics drawn at the start
CallCalculateOdds ==
    /\ ~ co.called
    /\ co' = [co EXCEPT
            !.called = TRUE,
            !.result = calculate_odds(co.team_a_stats, co.team_b_stats,
                                      co.home_advantage, co.random_factor_a,
                                      co.random_factor_b)]
    /\ UNCHANGED <<rk, pb, rw, ut, bt, oc, sb, mu, tm>>

InitCalc ==
    /\ rk = Idle
    /\ pb = Idle
    /\ rw = Idle
    /\ ut = Idle
    /\ bt = Idle
    /\ oc = Idle
    /\ sb = Idle
    /\ mu = Idle
    /\ tm = Idle
    /\ \E team_a_stats \in TeamStats, team_b_stats \in TeamStats :
       \E home_advantage \in BOOLEAN :
       \E random_factor_a \in RandomFactors, random_factor_b \in RandomFactors :
         co = [ called          |-> FALSE,
                team_a_stats    |-> team_a_stats,
                team_b_stats    |-> team_b_stats,
                home_advantage  |-> home_advantage,
                random_factor_a |-> random_factor_a,
                random_factor_b |-> random_factor_b,
                result          |-> <<>> ]

NextCalc == CallCalculateOdds
SpecCalc == InitCalc /\ [][NextCalc]_vars

(************************ src/src/utils/model_utils.py **********************)

\* lines 5-8
MODEL_PATHS == ("model_1" :> "models/model_1.pkl")

\* the file system as the module sees it: whether the directory models
\* exists and what models/model_1.pkl holds ("absent", a pickled model, or
\* bytes that do not unpickle)
Disk(dir, content) == [dir |-> dir, content |-> content]

\* os.path.exists(filepath), and what joblib.load(filepath) finds
FileContent(disk, filepath) ==
    IF filepath = "models/model_1.pkl" THEN disk.content ELSE "absent"

\* what a call did: how it ended, the value returned, the file-system calls
\* it made, the disk afterwards
Call(outcome, value, fs_calls, disk) ==
    [outcome |-> outcome, value |-> value, fs_calls |-> fs_calls, disk |-> disk]

\* joblib.load(filepath)
JoblibLoad(disk, filepath, fs_calls) ==
    LET content == FileContent(disk, filepath)
    IN  IF content = "absent"
        THEN Call("FileNotFoundError", "None", fs_calls \o <<"load">>, disk)
        ELSE IF content = "corrupt"
        THEN Call("UnpicklingError", "None", fs_calls \o <<"load">>, disk)
        ELSE Call("returned", content, fs_calls \o <<"load">>, disk)

\* save_model.  write is how lines 19-20 go: "ok", makedirs raising, the
\* open of joblib.dump raising, the pickling raising with the file opened;
\* line 22 swallows every exception
save_model(disk, model, model_name, write) ==
    IF model_name \notin DOMAIN MODEL_PATHS
    THEN Call("ValueError", "None", <<>>, disk)
    ELSE IF write = "makedirs_failed"
    THEN Call("returned", "None", <<"makedirs">>, disk)
    ELSE IF write = "open_failed"
    THEN Call("returned", "None", <<"makedirs", "dump">>,
              Disk(TRUE, disk.content))
    ELSE IF write = "dump_failed"
    THEN Call("returned", "None", <<"makedirs", "dump">>, Disk(TRUE, "corrupt"))
    ELSE Call("returned", "None", <<"makedirs", "dump">>, Disk(TRUE, model))

\* variant: the name is taken for the path of the file, as load_model of
\* src/utils/model_utils.py does
load_model_byPath(disk, model_name) == JoblibLoad(disk, model_name, <<>>)

\* load_model
load_model(disk, model_name) ==
    IF model_name \notin DOMAIN MODEL_PATHS
    THEN Call("ValueError", "None", <<>>, disk)
    ELSE
      LET filepath == MODEL_PATHS[model_name]
      IN  IF FileContent(disk, filepath) = "absent"
          THEN Call("FileNotFoundError", "None", <<"exists">>, disk)
          ELSE JoblibLoad(disk, filepath, <<"exists">>)

ModelNames    == {"model_1", "model_2", "models/model_1.pkl"}
Models        == {"rf", "xgb"}
DumpOutcomes  == {"ok", "makedirs_failed", "open_failed", "dump_failed"}

SaveModel ==
    /\ mu.n < MaxCalls
    /\ \E model \in Models, model_name \in ModelNames, write \in DumpOutcomes :
         LET r == save_model(mu.disk, model, model_name, write)
         IN  mu' = [ disk |-> r.disk, n |-> mu.n + 1,
                     last |-> [ op |-> "save_model", model_name |-> model_name,
                                before |-> mu.disk, call |-> r ] ]
    /\ UNCHANGED <<rk, pb, rw, ut, bt, oc, sb, co, tm>>

LoadModel ==
    /\ mu.n < MaxCalls
    /\ \E model_name \in ModelNames :
         LET r == load_model(mu.disk, model_name)
         IN  mu' = [ disk |-> r.disk, n |-> mu.n + 1,
                     last |-> [ op |-> "load_model", model_name |-> model_name,
                                before |-> mu.disk, call |-> r ] ]
    /\ UNCHANGED <<rk, pb, rw, ut, bt, oc, sb, co, tm>>

InitModels ==
    /\ rk = Idle
    /\ pb = Idle
    /\ rw = Idle
    /\ ut = Idle
    /\ bt = Idle
    /\ oc = Idle
    /\ sb = Idle
    /\ co = Idle
    /\ tm = Idle
    /\ \E dir \in BOOLEAN, content \in Models \cup {"absent", "corrupt"} :
         /\ content # "absent" => dir
         /\ mu = [ disk |-> Disk(dir, content), n |-> 0,
                   last |-> [ op |-> "import", model_name |-> "",
                              before |-> Disk(dir, content),
                              call |-> Call("returned", "None", <<>>,
                                            Disk(dir, content)) ] ]

NextModels == SaveModel \/ LoadModel
SpecModels == InitModels /\ [][NextModels]_vars

(********************* src/src/prediction/train_model.py ********************)

\* line 68: the values of outcome_name that are kept
ValidOutcomes == {"Yes", "No", "1", "2", "X", "Over", "Under"}

\* a data frame: the names of its columns and its rows.  A row holds
\* outcome_name ("" is a missing value), odds_type and market_name; a field
\* counts only while its column is among df.columns
Frame(columns, rows) == [columns |-> columns, rows |-> rows]

\* line 60: pd.get_dummies(df, columns=..., drop_first=True) replaces each
\* listed column by indicator columns named <column>_<value>, one for every
\* value of the column but one
Indicators(df, column) ==
    LET values == { df.rows[i][column] : i \in DOMAIN df.rows }
    IN  IF values = {} THEN {}
        ELSE { column \o "_" \o v :
                 v \in values \ { CHOOSE w \in values : TRUE } }

get_dummies(df, listed) ==
    Frame((df.columns \ listed)
            \cup UNION { Indicators(df, column) : column \in listed },
          df.rows)

\* row[key] on a row of df: the value, or the KeyError of a column that is
\* not there
HasColumn(df, key) == key \in df.columns

\* encode_outcome_based_on_odds_type, for a row that has both columns: the
\* label, or "None" when no branch returns
encode_outcome_based_on_odds_type(row) ==
    LET odds_type    == row.odds_type
        outcome_name == row.outcome_name
    IN  IF odds_type \in {"Totals", "Score"}
        THEN IF outcome_name \in {"Yes", "No"} THEN outcome_name ELSE "None"
        ELSE IF odds_type \in {"2Way", "Asian Handicap"}
        THEN IF outcome_name \in {"1", "2"} THEN outcome_name ELSE "None"
        ELSE IF odds_type \in {"3Way", "European Handicap"}
        THEN IF outcome_name \in {"1", "2", "X"} THEN outcome_name ELSE "None"
        ELSE IF odds_type = "Over/Under"
        THEN IF outcome_name \in {"Over", "Under"} THEN outcome_name ELSE "None"
        ELSE "None"

\* line 82: the columns of dtype float64 or int64.  best_price and the two
\* columns computed from it are numbers; encoded_outcome holds the labels
\* and None, the other columns strings or indicators
NumericColumns(df) ==
    df.columns \cap {"best_price", "implied_probability", "adjusted_odds"}

\* the rows of seq that satisfy keep, in order
RECURSIVE SelectRows(_, _)
SelectRows(rows, kept) ==
    IF rows = <<>> THEN <<>>
    ELSE IF Head(rows).outcome_name \in kept
    THEN <<Head(rows)>> \o SelectRows(Tail(rows), kept)
    ELSE SelectRows(Tail(rows), kept)

\* how a call ended: "returned" with the number of values returned (0 is
\* None), or the exception raised and the line that raised it
Ended(outcome, values, line) ==
    [outcome |-> outcome, values |-> values, line |-> line]

\* preprocess_data(csv_file_path, add_target) of train_model, on the frame
\* read from the CSV
train_preprocess_data(csv, add_target) ==
    IF ~ HasColumn(csv, "outcome_name")
    THEN Ended("returned", 0, 46)
    ELSE
      LET priced  == IF HasColumn(csv, "best_price")
                     THEN Frame(csv.columns
                                  \cup {"implied_probability", "adjusted_odds"},
                                csv.rows)
                     ELSE csv
          available_categorical_columns ==
                     {"market_name", "odds_type"} \cap priced.columns
          dummies == IF available_categorical_columns # {}
                     THEN get_dummies(priced, available_categorical_columns)
                     ELSE priced
          df      == Frame(dummies.columns,
                           SelectRows(dummies.rows, ValidOutcomes))
      IN  IF df.rows = <<>>
          THEN Ended("returned", 0, 72)
          ELSE IF ~ HasColumn(df, "odds_type")
          THEN Ended("KeyError", 0, 128)
          ELSE
            LET encoded == Frame(df.columns \cup {"encoded_outcome"}, df.rows)
                numeric_columns == NumericColumns(encoded)
            IN  IF ~ add_target
                THEN Ended("returned", 1, 120)
                ELSE IF "encoded_outcome" \notin numeric_columns
                THEN Ended("ValueError", 0, 98)
                ELSE Ended("returned", 4, 118)

CsvColumns   == {"outcome_name", "odds_type", "market_name", "best_price"}
CsvOutcomes  == {"", "1", "X", "Yes", "Draw"}
CsvOddsTypes == {"3Way", "Totals", "Corners"}
CsvRows      == [outcome_name : CsvOutcomes, odds_type : CsvOddsTypes,
                 market_name : {"1X2"}]

\* the call of preprocess_data on the CSV drawn at the start
CallTrainPreprocess ==
    /\ ~ tm.called
    /\ tm' = [tm EXCEPT
            !.called = TRUE,
            !.result = train_preprocess_data(tm.csv, tm.add_target)]
    /\ UNCHANGED <<rk, pb, rw, ut, bt, oc, sb, co, mu>>

InitTrain ==
    /\ rk = Idle
    /\ pb = Idle
    /\ rw = Idle
    /\ ut = Idle
    /\ bt = Idle
    /\ oc = Idle
    /\ sb = Idle
    /\ co = Idle
    /\ mu = Idle
    /\ \E columns \in SUBSET CsvColumns, add_target \in BOOLEAN :
       \E n \in 0 .. MaxRows :
       \E rows \in [1 .. n -> CsvRows] :
         /\ "odds_type" \notin columns =>
              \A i \in 1 .. n : rows[i].odds_type = "3Way"
         /\ "outcome_name" \notin columns =>
              \A i \in 1 .. n : rows[i].outcome_name = ""
         /\ tm = [ called     |-> FALSE,
                   csv        |-> Frame(columns, rows),
                   add_target |-> add_target,
                   result     |-> <<>> ]

NextTrain == CallTrainPreprocess
SpecTrain == InitTrain /\ [][NextTrain]_vars

(************************* predict_bet: C1 - C4 ****************************)

\* the price taken for candidate i and its expected value, from the inputs
PriceOf(i) == rk.processed_data[i].bookmaker_price
EvOf(i)    == rk.probs[i] * PriceOf(i) - (ProbDen - rk.probs[i]) * OddsDen

\* C1: for every candidate i the loop reaches, the expected value it computes
\* is probability_i * odds_i - (1 - probability_i), with odds_i the
\* bookmaker_price of processed_data[i]; a run that returns has computed it for
\* every candidate, and every returned bet carries that value and that price.
C1_ExpectedValueFormula ==
    rk.called =>
      /\ \A i \in DOMAIN rk.evs : rk.evs[i] = EvOf(i)
      /\ rk.outcome = "returned" => Len(rk.evs) = Len(rk.probs)
      /\ \A j \in DOMAIN rk.bets :
           \E i \in DOMAIN rk.processed_data :
             /\ rk.bets[j].outcome_name = rk.processed_data[i].outcome_name
             /\ rk.bets[j].ev = EvOf(i)
             /\ rk.bets[j].bet_coef = PriceOf(i)
             /\ rk.bets[j].predicted_probability = rk.probs[i]

\* a run that returned two bets and computed a negative and a positive value
C1_Witness ==
    /\ rk.called
    /\ rk.outcome = "returned"
    /\ Len(rk.bets) >= 2
    /\ \E i, k \in DOMAIN rk.evs : rk.evs[i] < 0 /\ rk.evs[k] > 0

\* C2: the returned list holds exactly the candidates with ev > 0 and
\* price <= max_odds, each once.
C2_ExactlyQualifying ==
    (rk.called /\ rk.outcome = "returned") =>
      /\ \A i \in DOMAIN rk.processed_data :
           (EvOf(i) > 0 /\ PriceOf(i) <= rk.max_odds)
             <=> \E j \in DOMAIN rk.bets :
                   rk.bets[j].outcome_name = rk.processed_data[i].outcome_name
      /\ \A j, k \in DOMAIN rk.bets :
           rk.bets[j].outcome_name = rk.bets[k].outcome_name => j = k

\* a run that kept one candidate, dropped one for its expected value and
\* dropped one with a positive expected value for its price
C2_Witness ==
    /\ rk.called
    /\ rk.outcome = "returned"
    /\ Len(rk.bets) = 1
    /\ \E i \in DOMAIN rk.processed_data : EvOf(i) <= 0 /\ PriceOf(i) <= rk.max_odds
    /\ \E i \in DOMAIN rk.processed_data : EvOf(i) > 0 /\ PriceOf(i) > rk.max_odds

\* C3 as stated: in the returned list the ev of a bet is greater than or
\* equal to the ev of the bet after it.
C3_RankedByEv ==
    (rk.called /\ rk.outcome = "returned") =>
      \A j \in 1 .. Len(rk.bets) - 1 : rk.bets[j].ev >= rk.bets[j + 1].ev

\* C3 as the code has it: the returned list is ranked by expected profit,
\* expected_profit = ev * price * desired_profit, greatest first.
C3_RankedByExpectedProfit ==
    (rk.called /\ rk.outcome = "returned") =>
      /\ \A j \in DOMAIN rk.bets :
           rk.bets[j].expected_profit
             = rk.bets[j].ev * rk.bets[j].bet_coef * rk.desired_profit
      /\ \A j \in 1 .. Len(rk.bets) - 1 :
           rk.bets[j].expected_profit >= rk.bets[j + 1].expected_profit

\* a run whose candidates came in ascending order of expected profit and
\* were returned in the opposite order
C3_Witness ==
    /\ rk.called
    /\ rk.outcome = "returned"
    /\ Len(rk.bets) >= 2
    /\ rk.bets[1].expected_profit > rk.bets[2].expected_profit
    /\ \E i, k \in DOMAIN rk.processed_data :
         /\ i < k
         /\ rk.bets[1].outcome_name = rk.processed_data[k].outcome_name
         /\ rk.bets[2].outcome_name = rk.processed_data[i].outcome_name

\* C4: a call with a non-empty odds list of the client's shape and an
\* existing model file returns, and no required column is missing.
C4_ReturnsForClientOdds ==
    (pb.called /\ pb.model_exists /\ Len(pb.odds) >= 1) =>
      (pb.outcome = "returned" /\ pb.missing = {})

(********************* get_real_world_data: C5, C6 *************************)

\* the outcomes of the requests sent so far, in order
RECURSIVE RequestsOf(_)
RequestsOf(events) ==
    IF events = <<>> THEN <<>>
    ELSE IF Head(events) = "sleep" THEN RequestsOf(Tail(events))
    ELSE <<Head(events)>> \o RequestsOf(Tail(events))

\* C5: a call sends at most retry_attempts requests, each request after the
\* first follows a request that raised a request exception, and a call in
\* which all retry_attempts requests raised one has returned None.
C5_BoundedRetries ==
    LET sent == RequestsOf(rw.events)
        allRaised == /\ Len(sent) = rw.retry_attempts
                     /\ \A j \in DOMAIN sent : sent[j] \in RequestExceptions
    IN  /\ rw.requests = Len(sent)
        /\ rw.requests <= rw.retry_attempts
        /\ \A j \in 2 .. Len(sent) : sent[j - 1] \in RequestExceptions
        /\ (allRaised /\ rw.requests >= 1) => rw.pc = "done"
        /\ (allRaised /\ rw.pc # "loop") => (rw.pc = "done" /\ rw.result = "None")

\* a call with three attempts allowed in which all three requests raised
C5_Witness ==
    /\ rw.pc = "done"
    /\ rw.retry_attempts >= 3
    /\ rw.requests = rw.retry_attempts
    /\ \A j \in DOMAIN rw.events :
         rw.events[j] \in RequestExceptions \cup {"sleep"}
    /\ rw.result = "None"

\* C6: every sleep follows a failed request and is followed by the next
\* request, two requests are always separated by a sleep, and a finished call
\* that sent a request slept once less than it sent requests.
C6_SleepBetweenAttempts ==
      /\ \A j \in DOMAIN rw.events :
           rw.events[j] = "sleep" =>
             /\ j > 1
             /\ rw.events[j - 1] \in RequestExceptions
             /\ (j = Len(rw.events) => rw.pc = "loop"
                                       /\ InRange(rw.attempt, rw.retry_attempts))
      /\ \A j \in 1 .. Len(rw.events) - 1 :
           rw.events[j] # "sleep" => rw.events[j + 1] = "sleep"
      /\ (rw.pc \in {"done", "raised"} /\ rw.requests >= 1)
           => rw.sleeps = rw.requests - 1

\* a call whose three requests all failed, with a sleep after the first two
\* only
C6_Witness ==
    /\ rw.pc = "done"
    /\ rw.requests = 3
    /\ rw.sleeps = 2
    /\ rw.events[Len(rw.events)] \in RequestExceptions

(************************ user_tracking: C8, C9 ****************************)

\* the bets that the calls made since the import saved for user_id, in call order
RECURSIVE SavedFor(_, _)
SavedFor(calls, user_id) ==
    IF calls = <<>> THEN <<>>
    ELSE LET n    == Len(calls)
             rest == SavedFor(SubSeq(calls, 1, n - 1), user_id)
         IN  IF calls[n].op = "save_user_bet" /\ calls[n].user_id = user_id
             THEN Append(rest, calls[n].bet)
             ELSE rest

\* C8: save_user_bet appends exactly one record to the end of the user's bets
\* (an unknown user is created with risk_tolerance 'medium'), leaves the
\* user's earlier bets and preferences and every other user's record as they
\* were, and the bets of every user are the bets saved for it in call order.
C8_AppendsOneBet ==
    /\ ut.last.op = "save_user_bet" =>
         LET before  == ut.last.before
             after   == ut.user_data
             user_id == ut.last.user_id
             record  == ut.calls[Len(ut.calls)].bet
         IN  /\ Keys(after) = Keys(before) \cup {user_id}
             /\ BetsOf(after, user_id) = Append(BetsOf(before, user_id), record)
             /\ Lookup(after, user_id).preferences
                  = IF HasKey(before, user_id)
                    THEN Lookup(before, user_id).preferences
                    ELSE [risk_tolerance |-> "medium"]
             /\ \A k \in Keys(before) \ {user_id} :
                  Lookup(after, k) = Lookup(before, k)
    /\ \A user_id \in UserIds :
         BetsOf(ut.user_data, user_id)
           = BetsOf(ut.start_data, user_id) \o SavedFor(ut.calls, user_id)

\* a second bet saved for a user whose risk tolerance had been changed, with
\* another user on record
C8_Witness ==
    /\ ut.last.op = "save_user_bet"
    /\ Len(BetsOf(ut.user_data, ut.last.user_id)) = 2
    /\ HasKey(ut.last.before, ut.last.user_id)
    /\ Cardinality(Keys(ut.user_data)) >= 2

\* C9 as stated: after a call whose write succeeded, load_user_data returns a
\* dictionary equal to user_data.
C9_FileEqualsUserData ==
    (ut.last.op \in {"save_user_bet", "update_user_preferences"}
       /\ ut.last.write = "ok")
      => DictEq(load_user_data(ut.file), ut.user_data)

\* every user id is a string and no bet holds a tuple
JsonNative(d) ==
    \A i \in DOMAIN d :
      /\ d[i].k.t = "str"
      /\ \A j \in DOMAIN d[i].v.bets : d[i].v.bets[j].odds.t = "list"

\* C9 as the code has it: after a call whose write succeeded the file holds
\* the JSON form of user_data, and load_user_data returns a dictionary equal
\* to user_data when every user id is a string and no bet holds a tuple.
C9_FileIsJsonOfUserData ==
    (ut.last.op \in {"save_user_bet", "update_user_preferences"}
       /\ ut.last.write = "ok")
      => /\ ut.file.state = "json"
         /\ Len(ut.file.doc) = Len(ut.user_data)
         /\ \A i \in DOMAIN ut.user_data :
              /\ ut.file.doc[i].k.v = ut.user_data[i].k.v
              /\ ut.file.doc[i].v.preferences = ut.user_data[i].v.preferences
              /\ Len(ut.file.doc[i].v.bets) = Len(ut.user_data[i].v.bets)
         /\ JsonNative(ut.user_data)
              => DictEq(load_user_data(ut.file), ut.user_data)

\* a successful write of two users with string ids after an earlier write
\* had failed
C9_Witness ==
    /\ ut.last.op \in {"save_user_bet", "update_user_preferences"}
    /\ ut.last.write = "ok"
    /\ JsonNative(ut.user_data)
    /\ Len(ut.user_data) = 2
    /\ \E i \in DOMAIN ut.user_data : Len(ut.user_data[i].v.bets) >= 1
    /\ ut.n = 3

(***************************** POST /bet: C7 *******************************)

\* what a run shows: the page, the message, the prediction, the exception
\* that left the handler and the bet record it saved
Shown(answer) ==
    [ page |-> answer.page, message |-> answer.message,
      prediction |-> answer.prediction, exc |-> answer.exc,
      saved |-> answer.saved ]

C10_ListOrNone ==
    oc.called => oc.result.outcome \in {"list", "None"}


(******************* code/source /bet handler: C11, C12 ********************)

\* the condition C11 states on the form
FormAccepted(form) ==
    /\ form.website # ""
    /\ form.models # <<>>
    /\ form.bet_amount # <<>> /\ Gt(form.bet_amount[1], 0)
    /\ form.max_odds # <<>> /\ Gt(form.max_odds[1], 0)
    /\ form.desired_profit # <<>>
    /\ Le(1, form.desired_profit[1]) /\ Le(form.desired_profit[1], 1000)

\* C11: the handler calls get_gambling_odds if and only if website is
\* non-empty, a model is selected, bet_amount > 0, max_odds > 0 and
\* 1 <= desired_profit <= 1000; every other request gets an error page.
C11_FetchIffAccepted ==
    bt.called =>
      /\ bt.answer.fetch <=> FormAccepted(bt.form)
      /\ ~ FormAccepted(bt.form) => bt.answer.page = "error.html"

\* C12: a request that passes validation and for which odds are fetched
\* saves exactly one bet under the fresh user id and is answered with the
\* result page showing the predicted outcome.
C12_SavesOneBetThenResult ==
    (bt.called /\ ValidationError(bt.form) = "" /\ bt.fetched # <<>>) =>
      /\ Len(bt.answer.saved) = 1
      /\ Len(BetsOf(bt.answer.user_data, FreshUserId)) = 1
      /\ bt.answer.page = "result.html"
      /\ bt.answer.prediction = (IF bt.choice THEN "Win" ELSE "Lose")


(************************ src/src /bet handler: C13 ************************)

\* C13: the handler always answers with a rendered page, the result page
\* only after validation passed, the odds fetch returned a value, the model
\* file exists and predict_bet returned; in every other case, an exception
\* of the fetch, the model check or the prediction included, the error page.
C13_AlwaysRendersPage ==
    sb.called =>
      /\ sb.answer.page \in {"result.html", "error.html"}
      /\ sb.answer.page = "result.html" =>
           /\ src_ValidationError(sb.form) = ""
           /\ sb.answer.steps = <<"fetch", "model", "predict">>
           /\ sb.answer.exc = "none"
      /\ sb.answer.exc # "none" => sb.answer.page = "error.html"


(************************* calculate_odds: C14 *****************************)

\* C14: whatever the statistics of the two teams, home_advantage and the
\* random fluctuations are, both odds returned lie between 1.5 and 5.0.
C14_OddsInRange ==
    co.called =>
      /\ 150 <= co.result.team_a_odds /\ co.result.team_a_odds <= 500
      /\ 150 <= co.result.team_b_odds /\ co.result.team_b_odds <= 500

\* a call in which the odds of team A were cut at 5.0 and those of team B
\* raised to 1.5
C14_Witness ==
    /\ co.called
    /\ co.team_a_stats.goals = 45 /\ co.team_b_stats.goals = 0
    /\ co.result.team_a_odds = 500 /\ co.result.team_b_odds = 150


(*************************** model_utils: C15 ******************************)

\* C15: save_model and load_model raise ValueError for a name that is no
\* key of MODEL_PATHS, without a call to the file system; load_model raises
\* FileNotFoundError for a registered name whose file does not exist, and
\* returns a model only for a registered name whose file exists.
C15_NameAndFileChecked ==
    LET last       == mu.last
        registered == last.model_name \in DOMAIN MODEL_PATHS
        missing    == registered
                      /\ FileContent(last.before,
                                     MODEL_PATHS[last.model_name]) = "absent"
    IN  /\ (last.op \in {"save_model", "load_model"} /\ ~ registered) =>
             /\ last.call.outcome = "ValueError"
             /\ last.call.fs_calls = <<>>
             /\ mu.disk = last.before
        /\ (last.op = "load_model" /\ missing) =>
             last.call.outcome = "FileNotFoundError"
        /\ (last.op = "load_model" /\ last.call.outcome = "returned") =>
             /\ registered /\ ~ missing
             /\ last.call.value \in Models

\* a load of a name that is not registered although it is the path of a
\* file that exists and holds a model
C15_Witness ==
    /\ mu.last.op = "load_model"
    /\ mu.last.model_name = "models/model_1.pkl"
    /\ mu.last.before.content \in Models
    /\ mu.last.call.outcome = "ValueError"


(********************* train_model.preprocess_data: C16 ********************)

\* C16: preprocess_data called with add_target=True on a CSV that has the
\* columns outcome_name, with a valid value in some row, and odds_type
\* returns the four values X_train_scaled, X_test_scaled, y_train, y_test.
C16_ReturnsFourValues ==
    ( /\ tm.called /\ tm.add_target
      /\ {"outcome_name", "odds_type"} \subseteq tm.csv.columns
      /\ \E i \in DOMAIN tm.csv.rows :
           tm.csv.rows[i].outcome_name \in ValidOutcomes )
    => (tm.result.outcome = "returned" /\ tm.result.values = 4)


(*********************** get_user_preferences: C17 *************************)

\* C17: for a user without a record get_user_preferences returns
\* {'risk_tolerance': 'medium'}, creates no record for the user and leaves
\* user_data and the data file as they were.
C17_DefaultWithoutRecord ==
    (ut.last.op = "get_user_preferences"
       /\ ~ HasKey(ut.last.before, ut.last.user_id)) =>
      /\ ut.last.value = [risk_tolerance |-> "medium"]
      /\ ~ HasKey(ut.user_data, ut.last.user_id)
      /\ ut.user_data = ut.last.before
      /\ ut.file = ut.last.file_before

\* the preferences of a user without a record are asked for while another
\* user has a record with a preference that is not the default
C17_Witness ==
    /\ ut.last.op = "get_user_preferences"
    /\ ~ HasKey(ut.last.before, ut.last.user_id)
    /\ \E i \in DOMAIN ut.user_data :
         ut.user_data[i].v.preferences.risk_tolerance = "high"

=============================================================================
